---- MODULE Spec2Model ----
(***************************************************************************)
(* Model of src/Prepo.py: the five-stage preprocessing pipeline            *)
(*   load_data -> clean_data -> feature_engineering -> encode_categorical  *)
(*   -> export_train_data                                                  *)
(* A table (pandas DataFrame) is a record                                  *)
(*   [columns : Seq(STRING), index : Seq(Nat), data : Seq(Seq(Val))]       *)
(* columns are the column labels in order, index the row labels in order,  *)
(* data[i][j] the cell of the i-th row and the j-th column.                *)
(* A cell is a tagged value: a number (an exact fraction n/d), a string,   *)
(* the missing value (NaN/None), an infinity, or ln(n/d) kept symbolic.    *)
(* Numeric input columns hold integers or missing values.                  *)
(***************************************************************************)
EXTENDS Integers, Sequences, FiniteSets, TLC

\* Largest number of records in the data source.
MaxRows == 2

\* Upper odometer bound of the outlier filter.
OdometerLimit == 1000000

(***************************************************************************)
(* Cell values                                                             *)
(***************************************************************************)
Abs(n) == IF n < 0 THEN -n ELSE n

RECURSIVE GCD(_, _)
GCD(a, b) == IF b = 0 THEN a ELSE GCD(b, a % b)

\* Cell constructors.  t is the Python/numpy type of the cell: "int", "float"
\* (the exact fraction n/d), "nan" (NaN or None), "str", "inf" (n is the
\* sign) and "ln" (the float ln(n/d)).
NaN == [t |-> "nan", n |-> 0, d |-> 1, s |-> ""]
IntCell(n) == [t |-> "int", n |-> n, d |-> 1, s |-> ""]
Str(s) == [t |-> "str", n |-> 0, d |-> 1, s |-> s]
Inf(sign) == [t |-> "inf", n |-> sign, d |-> 1, s |-> ""]
Ln(n, d) == [t |-> "ln", n |-> n, d |-> d, s |-> ""]

\* The float n/d (d > 0) in lowest terms.
FloatCell(n, d) ==
    LET g == GCD(Abs(n), d)
    IN  [t |-> "float", n |-> n \div g, d |-> d \div g, s |-> ""]

IsNum(v) == v.t \in {"int", "float"}
isna(v) == v.t = "nan"

\* a - b, a + b, a / b on numeric cells; a missing operand gives a missing
\* result; true division gives a float, and an infinity on a zero divisor
\* (NaN for 0/0).
Sub(a, b) ==
    IF ~(IsNum(a) /\ IsNum(b)) THEN NaN
    ELSE IF a.t = "int" /\ b.t = "int" THEN IntCell(a.n - b.n)
    ELSE FloatCell(a.n * b.d - b.n * a.d, a.d * b.d)

Add(a, b) ==
    IF ~(IsNum(a) /\ IsNum(b)) THEN NaN
    ELSE IF a.t = "int" /\ b.t = "int" THEN IntCell(a.n + b.n)
    ELSE FloatCell(a.n * b.d + b.n * a.d, a.d * b.d)

TrueDiv(a, b) ==
    IF ~(IsNum(a) /\ IsNum(b)) THEN NaN
    ELSE IF b.n = 0 THEN (IF a.n = 0 THEN NaN ELSE Inf(IF a.n > 0 THEN 1 ELSE -1))
    ELSE IF b.n > 0 THEN FloatCell(a.n * b.d, a.d * b.n)
    ELSE FloatCell(-(a.n * b.d), a.d * (-b.n))

\* v < k and v > k for an integer k; a comparison with a missing value is False.
Lt(v, k) ==
    \/ IsNum(v) /\ v.n < k * v.d
    \/ v.t = "inf" /\ v.n < 0

Gt(v, k) ==
    \/ IsNum(v) /\ v.n > k * v.d
    \/ v.t = "inf" /\ v.n > 0

\* np.log1p: ln(1 + v); -inf at v = -1, NaN (a warning, no exception) below -1.
log1p(v) ==
    IF ~IsNum(v) THEN NaN
    ELSE IF v.n + v.d > 0 THEN (IF v.n = 0 THEN FloatCell(0, 1) ELSE Ln(v.n + v.d, v.d))
    ELSE IF v.n + v.d = 0 THEN Inf(-1)
    ELSE NaN

Digit(k) == SubSeq("0123456789", k + 1, k + 1)

RECURSIVE NatToStr(_)
NatToStr(n) == IF n < 10 THEN Digit(n) ELSE NatToStr(n \div 10) \o Digit(n % 10)

IntToStr(n) == IF n < 0 THEN "-" \o NatToStr(-n) ELSE NatToStr(n)

\* str(v) of a cell: a string is itself, an int its decimal digits, an integral
\* float its digits followed by ".0", a missing value "nan".
str(v) ==
    CASE v.t = "str" -> v.s
      [] v.t = "int" -> IntToStr(v.n)
      [] v.t = "float" /\ v.d = 1 -> IntToStr(v.n) \o ".0"
      [] v.t = "float" /\ v.d # 1 -> IntToStr(v.n) \o "/" \o IntToStr(v.d)
      [] v.t = "nan" -> "nan"
      [] v.t = "inf" -> IF v.n > 0 THEN "inf" ELSE "-inf"
      [] OTHER -> "ln(" \o IntToStr(v.n) \o "/" \o IntToStr(v.d) \o ")"

(***************************************************************************)
(* Series and tables                                                       *)
(***************************************************************************)
Range(f) == {f[i] : i \in DOMAIN f}

\* F of the value of v, with v evaluated once.
Let(v, F(_)) == CHOOSE r \in {F(x) : x \in {v}} : TRUE

\* The sequence <<f(1), ..., f(n)>>.
RECURSIVE Map(_, _)
Map(f(_), n) == IF n = 0 THEN <<>> ELSE Append(Map(f, n - 1), f(n))

\* Column dtype inference: a column of numbers that holds a missing value or a
\* float is a float64 column, so its ints are floats; any other column keeps
\* its cells (int64, or object with Python values).
infer_dtype(series) ==
    IF /\ \A i \in DOMAIN series : series[i].t \in {"int", "float", "nan", "inf", "ln"}
       /\ \E i \in DOMAIN series : series[i].t # "int"
    THEN Map(LAMBDA i : IF series[i].t = "int" THEN FloatCell(series[i].n, 1)
                        ELSE series[i],
             Len(series))
    ELSE series

NRows(df) == Len(df.data)

HasCol(df, c) == \E j \in DOMAIN df.columns : df.columns[j] = c

ColPos(df, c) ==
    CHOOSE j \in DOMAIN df.columns :
        /\ df.columns[j] = c
        /\ \A k \in DOMAIN df.columns : df.columns[k] = c => j <= k

\* df[c]: the column as a series (a sequence of cells, one per row).
getitem(df, c) == Map(LAMBDA i : df.data[i][ColPos(df, c)], NRows(df))

\* df[c] = series: replaces the column when present, appends it otherwise.
setitem(df, c, series) ==
    Let(infer_dtype(series), LAMBDA col :
        IF HasCol(df, c)
        THEN [df EXCEPT !.data =
                 Map(LAMBDA i : [df.data[i] EXCEPT ![ColPos(df, c)] = col[i]], NRows(df))]
        ELSE [df EXCEPT !.columns = Append(df.columns, c),
                        !.data = Map(LAMBDA i : Append(df.data[i], col[i]), NRows(df))])

\* Positions of the rows a boolean mask keeps, in order.
RECURSIVE Kept(_, _)
Kept(mask, i) ==
    IF i > Len(mask) THEN <<>>
    ELSE (IF mask[i] THEN <<i>> ELSE <<>>) \o Kept(mask, i + 1)

\* df[mask]: a new table of the rows where mask holds; rows keep their labels.
boolean_index(df, mask) ==
    Let(Kept(mask, 1), LAMBDA keep :
        [columns |-> df.columns,
         index |-> Map(LAMBDA k : df.index[keep[k]], Len(keep)),
         data |-> Map(LAMBDA k : df.data[keep[k]], Len(keep))])

EmptyTable == [columns |-> <<>>, index |-> <<>>, data |-> <<>>]

(***************************************************************************)
(* pd.DataFrame(docs): the table of a list of records.  A record is a      *)
(* sequence of fields [k |-> name, v |-> cell]; the columns are the field  *)
(* names in order of first appearance, a field a record lacks is missing,  *)
(* and the rows are labelled 0, 1, ...                                     *)
(***************************************************************************)
RECURSIVE AddKeys(_, _, _)
AddKeys(cols, doc, j) ==
    IF j > Len(doc) THEN cols
    ELSE AddKeys(IF doc[j].k \in Range(cols) THEN cols ELSE Append(cols, doc[j].k),
                 doc, j + 1)

RECURSIVE UnionKeys(_, _, _)
UnionKeys(cols, docs, i) ==
    IF i > Len(docs) THEN cols
    ELSE UnionKeys(AddKeys(cols, docs[i], 1), docs, i + 1)

DocGet(doc, c) ==
    IF \E j \in DOMAIN doc : doc[j].k = c
    THEN doc[CHOOSE j \in DOMAIN doc : doc[j].k = c].v
    ELSE NaN

DataFrame(docs) ==
    Let(UnionKeys(<<>>, docs, 1), LAMBDA cols :
        Let(Map(LAMBDA j : infer_dtype(Map(LAMBDA i : DocGet(docs[i], cols[j]), Len(docs))),
                Len(cols)),
            LAMBDA column :
        [columns |-> cols,
         index |-> Map(LAMBDA i : i - 1, Len(docs)),
         data |-> Map(LAMBDA i : Map(LAMBDA j : column[j][i], Len(cols)), Len(docs))]))

(***************************************************************************)
(* Objects.  Inside a call the tables live in a heap (a sequence of        *)
(* tables); a reference is a position in it and the caller's table is at   *)
(* reference 1.  An in-place operation changes the object at a reference,  *)
(* every other operation allocates a new object.                           *)
(***************************************************************************)
alloc(h, obj) == [heap |-> Append(h, obj), ref |-> Len(h) + 1]

\* A call's outcome: the caller's table after the call, the returned table and
\* the exception raised ("" when the call returns).
Return(h, r) == [arg |-> h[1], ret |-> h[r], raised |-> ""]
Raise(h, e) == [arg |-> h[1], ret |-> EmptyTable, raised |-> e]

(***************************************************************************)
(* feature_engineering                                                     *)
(***************************************************************************)
CatDefaults == <<"fuel", "transmission", "brand", "model", "city">>

df_copy_alias(h, r) == [heap |-> h, ref |-> r]

\* df = df.copy(): a new object with the same contents.
df_copy(h, r) == alloc(h, h[r])

age_unclamped(df, current_year) ==
    Let(getitem(df, "year"), LAMBDA year :
        setitem(df, "age", Map(LAMBDA i : Sub(IntCell(current_year), year[i]), NRows(df))))

\* df["age"] = current_year - df["year"]; df.loc[df["age"] < 0, "age"] = 0
assign_age(df, current_year) ==
    Let(getitem(df, "year"), LAMBDA year :
    Let(setitem(df, "age", Map(LAMBDA i : Sub(IntCell(current_year), year[i]), NRows(df))),
        LAMBDA d1 :
    Let(getitem(d1, "age"), LAMBDA age :
        setitem(d1, "age",
                Map(LAMBDA i : IF Lt(age[i], 0) THEN IntCell(0) ELSE age[i], NRows(d1))))))

km_per_year_no_offset(df) ==
    Let(getitem(df, "odometer_km"), LAMBDA odo :
    Let(getitem(df, "age"), LAMBDA age :
        setitem(df, "km_per_year", Map(LAMBDA i : TrueDiv(odo[i], age[i]), NRows(df)))))

\* df["km_per_year"] = df["odometer_km"] / (df["age"] + 1)
assign_km_per_year(df) ==
    Let(getitem(df, "odometer_km"), LAMBDA odo :
    Let(getitem(df, "age"), LAMBDA age :
        setitem(df, "km_per_year",
                Map(LAMBDA i : TrueDiv(odo[i], Add(age[i], IntCell(1))), NRows(df)))))

\* df["price_log"] = np.log1p(df["price"])
assign_price_log(df) ==
    Let(getitem(df, "price"), LAMBDA price :
        setitem(df, "price_log", Map(LAMBDA i : log1p(price[i]), NRows(df))))

fillna(series, value) ==
    Map(LAMBDA i : IF isna(series[i]) THEN value ELSE series[i], Len(series))

astype_str(series) == Map(LAMBDA i : Str(str(series[i])), Len(series))

fill_categorical_no_fillna(df, cat_col) ==
    IF ~HasCol(df, cat_col)
    THEN setitem(df, cat_col, Map(LAMBDA i : Str("Unknown"), NRows(df)))
    ELSE Let(getitem(df, cat_col), LAMBDA col : setitem(df, cat_col, astype_str(col)))

\* One turn of the loop over the categorical columns.
fill_categorical(df, cat_col) ==
    IF ~HasCol(df, cat_col)
    THEN setitem(df, cat_col, Map(LAMBDA i : Str("Unknown"), NRows(df)))
    ELSE Let(getitem(df, cat_col), LAMBDA col :
         Let(fillna(col, Str("Unknown")), LAMBDA filled :
             setitem(df, cat_col, astype_str(filled))))

\* The loop over the categorical columns, from the k-th on.
RECURSIVE fill_categoricals(_, _)
fill_categoricals(df, k) ==
    IF k > Len(CatDefaults) THEN df
    ELSE Let(fill_categorical(df, CatDefaults[k]), LAMBDA d : fill_categoricals(d, k + 1))

price_mask_nonneg(df) ==
    Let(getitem(df, "price"), LAMBDA price : Map(LAMBDA i : Gt(price[i], -1), NRows(df)))

\* df["price"] > 0
price_mask(df) ==
    Let(getitem(df, "price"), LAMBDA price : Map(LAMBDA i : Gt(price[i], 0), NRows(df)))

\* df["odometer_km"] < 1_000_000
odometer_mask(df) ==
    Let(getitem(df, "odometer_km"), LAMBDA odo :
        Map(LAMBDA i : Lt(odo[i], OdometerLimit), NRows(df)))

\* An in-place operation on the object at reference r.
store(h, r, obj) == [h EXCEPT ![r] = obj]

\* feature_engineering(df) run in year current_year.  c is the working copy
\* the local name df is bound to; the two filters bind it to new objects.
feature_engineering(df, current_year) ==
    Let(df_copy(<<df>>, 1), LAMBDA c :
    IF ~HasCol(c.heap[c.ref], "year") THEN Raise(c.heap, "KeyError")
    ELSE Let(store(c.heap, c.ref, assign_age(c.heap[c.ref], current_year)), LAMBDA h1 :
    IF ~HasCol(h1[c.ref], "odometer_km") THEN Raise(h1, "KeyError")
    ELSE Let(store(h1, c.ref, assign_km_per_year(h1[c.ref])), LAMBDA h2 :
    IF ~HasCol(h2[c.ref], "price") THEN Raise(h2, "KeyError")
    ELSE Let(store(h2, c.ref, assign_price_log(h2[c.ref])), LAMBDA h3 :
         Let(store(h3, c.ref, fill_categoricals(h3[c.ref], 1)), LAMBDA h4 :
         Let(alloc(h4, boolean_index(h4[c.ref], price_mask(h4[c.ref]))), LAMBDA f1 :
         Let(alloc(f1.heap, boolean_index(f1.heap[f1.ref], odometer_mask(f1.heap[f1.ref]))),
             LAMBDA f2 : Return(f2.heap, f2.ref))))))))

(***************************************************************************)
(* encode_categorical                                                      *)
(***************************************************************************)
DefaultCatCols == <<"fuel", "transmission", "brand">>

\* Every string a categorical cell can hold after feature_engineering, in the
\* order Python sorts strings (by code point).
SortedVocab ==
    <<"3", "3.0", "Unknown", "audi", "auto", "bmw", "diesel", "kia", "manual",
      "nan", "petrol">>

InSeries(series, x) == \E i \in DOMAIN series : series[i].s = x

categories_drop_first(series) ==
    LET all == SelectSeq(SortedVocab, LAMBDA x : InSeries(series, x))
    IN  IF all = <<>> THEN all ELSE Tail(all)

\* OneHotEncoder.fit, one column: categories_ are its sorted distinct values.
categories(series) == SelectSeq(SortedVocab, LAMBDA x : InSeries(series, x))

\* Concatenation of f(1), ..., f(n).
RECURSIVE Concat(_, _, _)
Concat(f(_), k, n) == IF k > n THEN <<>> ELSE f(k) \o Concat(f, k + 1, n)

\* enc.get_feature_names_out(cat_cols): "<column>_<category>", column by column.
get_feature_names_out(X, cat_cols) ==
    LET names(k) ==
            Let(categories(getitem(X, cat_cols[k])), LAMBDA cats :
                Map(LAMBDA m : cat_cols[k] \o "_" \o cats[m], Len(cats)))
    IN  Concat(names, 1, Len(cat_cols))

\* OneHotEncoder(handle_unknown="ignore").transform, one row, with the
\* categories fitted on table F: 1.0 where the cell equals the category and 0.0
\* elsewhere, so a value outside the fitted categories gives zeros only.
transform_row(F, X, cat_cols, i) ==
    LET ind(k) ==
            Let(categories(getitem(F, cat_cols[k])), LAMBDA cats :
            Let(getitem(X, cat_cols[k])[i], LAMBDA cell :
                Map(LAMBDA m : IF cell.s = cats[m] THEN FloatCell(1, 1)
                               ELSE FloatCell(0, 1),
                    Len(cats))))
    IN  Concat(ind, 1, Len(cat_cols))

\* pd.DataFrame(enc.fit_transform(X), columns=names): rows labelled 0, 1, ...
encoded_frame(X, cat_cols) ==
    [columns |-> get_feature_names_out(X, cat_cols),
     index |-> Map(LAMBDA i : i - 1, NRows(X)),
     data |-> Map(LAMBDA i : transform_row(X, X, cat_cols, i), NRows(X))]

InCols(cols, c) == \E k \in DOMAIN cols : cols[k] = c

df_drop_nothing(df, cols) == df

\* df.drop(columns=cols): a new table without these columns.
df_drop(df, cols) ==
    Let(SelectSeq(Map(LAMBDA j : j, Len(df.columns)),
                  LAMBDA j : ~InCols(cols, df.columns[j])),
        LAMBDA keep :
        [columns |-> Map(LAMBDA k : df.columns[keep[k]], Len(keep)),
         index |-> df.index,
         data |-> Map(LAMBDA i : Map(LAMBDA k : df.data[i][keep[k]], Len(keep)),
                      NRows(df))])

reset_index_keep(df) == df

\* df.reset_index(drop=True): a new table with the rows labelled 0, 1, ...
reset_index(df) == [df EXCEPT !.index = Map(LAMBDA i : i - 1, NRows(df))]

RowAt(df, label, width) ==
    IF \E i \in DOMAIN df.index : df.index[i] = label
    THEN df.data[CHOOSE i \in DOMAIN df.index : df.index[i] = label]
    ELSE Map(LAMBDA j : NaN, width)

\* pd.concat([a, b], axis=1): the columns of a then those of b, the rows joined
\* on their labels (outer join: a's labels, then the labels only b has); a
\* label one side lacks gives missing values on that side.
concat_columns(a, b) ==
    Let(a.index \o SelectSeq(b.index, LAMBDA l : ~InCols(a.index, l)), LAMBDA idx :
        [columns |-> a.columns \o b.columns,
         index |-> idx,
         data |-> Map(LAMBDA i : RowAt(a, idx[i], Len(a.columns))
                                 \o RowAt(b, idx[i], Len(b.columns)),
                      Len(idx))])

\* The cat_cols argument: None selects the default columns.
resolve_cat_cols(arg) == IF arg.is_none THEN DefaultCatCols ELSE arg.cols

\* encode_categorical(df, cat_cols).  Every operation of it gives a new object:
\* e is encoded_df, n is df_num, r1 and r2 the two frames with their row
\* labels reset, f is df_final.
encode_categorical(df, arg) ==
    Let(resolve_cat_cols(arg), LAMBDA cols :
    Let(<<df>>, LAMBDA h0 :
    IF \E k \in DOMAIN cols : ~HasCol(h0[1], cols[k]) THEN Raise(h0, "KeyError")
    ELSE IF NRows(h0[1]) = 0 THEN Raise(h0, "ValueError")
    ELSE Let(alloc(h0, encoded_frame(h0[1], cols)), LAMBDA e :
         Let(alloc(e.heap, df_drop(e.heap[1], cols)), LAMBDA n :
         Let(alloc(n.heap, reset_index(n.heap[n.ref])), LAMBDA r1 :
         Let(alloc(r1.heap, reset_index(r1.heap[e.ref])), LAMBDA r2 :
         Let(alloc(r2.heap, concat_columns(r2.heap[r1.ref], r2.heap[r2.ref])),
             LAMBDA f : Return(f.heap, f.ref))))))))

(***************************************************************************)
(* load_data, clean_data, export_train_data                                *)
(***************************************************************************)
load_data_no_check(from_mongo_arg, store_up, csv_exists, records) ==
    IF from_mongo_arg
    THEN IF store_up
         THEN [ret |-> DataFrame(records), raised |-> "", read |-> TRUE]
         ELSE [ret |-> EmptyTable, raised |-> "ServerSelectionTimeoutError", read |-> TRUE]
    ELSE IF csv_exists
         THEN [ret |-> DataFrame(records), raised |-> "", read |-> TRUE]
         ELSE [ret |-> EmptyTable, raised |-> "FileNotFoundError", read |-> TRUE]

\* load_data(from_mongo): the records of the collection, or of the CSV file
\* after the os.path.exists test.  read tells whether the source was read
\* (collection.find / pd.read_csv was called).
load_data(from_mongo_arg, store_up, csv_exists, records) ==
    IF from_mongo_arg
    THEN IF store_up
         THEN [ret |-> DataFrame(records), raised |-> "", read |-> TRUE]
         ELSE [ret |-> EmptyTable, raised |-> "ServerSelectionTimeoutError", read |-> TRUE]
    ELSE IF ~csv_exists
         THEN [ret |-> EmptyTable, raised |-> "FileNotFoundError", read |-> FALSE]
         ELSE [ret |-> DataFrame(records), raised |-> "", read |-> TRUE]

\* run_filters(df, config=default_config): the external filter keeps some of
\* the rows (mask) or raises.
run_filters(df, mask, fails) ==
    IF fails THEN [ret |-> EmptyTable, raised |-> "FilterError"]
    ELSE [ret |-> boolean_index(df, mask), raised |-> ""]

\* df.to_csv(csv_path, index=False): the header and the rows, no row labels.
to_csv(df) == [columns |-> df.columns, data |-> df.data]

NoFile == [columns |-> <<>>, data |-> <<>>]

\* clean_data(df): the cleaned table of run_filters; the report is only printed.
clean_data(df, mask, fails) == run_filters(df, mask, fails)

\* export_train_data(df): writes data/train_ready.csv, or raises when the
\* directory or the file cannot be written (old is the file as it was).
export_train_data(df, disk_ok, old) ==
    IF disk_ok THEN [file |-> to_csv(df), written |-> TRUE, raised |-> ""]
    ELSE [file |-> old, written |-> FALSE, raised |-> "OSError"]

(***************************************************************************)
(* The data source                                                         *)
(***************************************************************************)
Field(k, v) == [k |-> k, v |-> v]

Doc1 == <<Field("price", IntCell(10000)), Field("year", IntCell(2020)),
          Field("odometer_km", IntCell(50000)), Field("fuel", Str("petrol"))>>
Doc2 == <<Field("price", IntCell(25000)), Field("year", IntCell(2030)),
          Field("odometer_km", IntCell(999999)), Field("fuel", Str("diesel")),
          Field("transmission", Str("auto")), Field("brand", Str("bmw")),
          Field("model", IntCell(3)), Field("city", NaN)>>
Doc3 == <<Field("price", IntCell(-5)), Field("year", IntCell(2019)),
          Field("odometer_km", IntCell(1000)), Field("brand", Str("audi"))>>
Doc4 == <<Field("price", IntCell(0)), Field("year", IntCell(2024)),
          Field("odometer_km", IntCell(30000)), Field("fuel", Str("petrol"))>>
Doc5 == <<Field("price", IntCell(5000)), Field("year", IntCell(2015)),
          Field("odometer_km", IntCell(1000000)), Field("fuel", NaN),
          Field("brand", Str("bmw"))>>
Doc6 == <<Field("price", IntCell(8000)), Field("odometer_km", IntCell(120000)),
          Field("transmission", Str("manual")), Field("brand", Str("audi"))>>
Doc7 == <<Field("price", IntCell(700)), Field("year", IntCell(2024)),
          Field("odometer_km", IntCell(1500000)), Field("fuel", Str("diesel"))>>
Doc8 == <<Field("year", IntCell(2025)), Field("odometer_km", IntCell(10)),
          Field("brand", Str("kia"))>>

Doc9 == <<Field("price", IntCell(900)), Field("year", IntCell(2024)),
          Field("fuel", Str("diesel"))>>

DocPool == {Doc1, Doc2, Doc3, Doc4, Doc5, Doc6, Doc7, Doc8, Doc9}

SeqsUpTo(S, n) == UNION {[1..k -> S] : k \in 0..n}

\* The years the run can take place in (datetime.now().year).
Years == {2024, 2025}

\* The cat_cols arguments encode_categorical is called with; main passes None.
CatColsArgs ==
    {[is_none |-> TRUE, cols |-> <<>>],
     [is_none |-> FALSE, cols |-> <<"fuel">>],
     [is_none |-> FALSE, cols |-> <<"brand", "city">>]}

(***************************************************************************)
(* The pipeline (main)                                                     *)
(***************************************************************************)
VARIABLES
    pc,            \* the stage main is about to run, or "done" / "failed"
    source,        \* the records of the collection (or of the CSV file)
    from_mongo,    \* load_data's source selection
    mongo_up,      \* whether the document store answers
    file_exists,   \* whether data/extracted_cars.csv exists
    source_read,   \* whether load_data read the source
    df, clean_df, fe_df, final_df,   \* main's local variables
    current_year,  \* the year feature_engineering ran in (0 before)
    cat_cols,      \* the cat_cols argument encode_categorical got
    csv_file,      \* the contents of data/train_ready.csv
    file_written,  \* whether data/train_ready.csv was written
    raised,        \* the exception that ended the run ("" if none)
    trace,         \* the stages entered so far, in order
    passed         \* the table each entered stage was given

vars == <<pc, source, from_mongo, mongo_up, file_exists, source_read, df, clean_df,
          fe_df, final_df, current_year, cat_cols, csv_file, file_written, raised,
          trace, passed>>

Stages == <<"load", "clean", "feature_engineering", "encode", "export">>

\* The table main passes to a stage: the previous stage's result.
stage_input(stage, t_df, t_clean, t_fe, t_final) ==
    CASE stage = "load" -> EmptyTable
      [] stage = "clean" -> t_df
      [] stage = "feature_engineering" -> t_clean
      [] stage = "encode" -> t_fe
      [] OTHER -> t_final

after_swallow(stage, exc) ==
    CASE stage = "load" -> "clean"
      [] stage = "clean" -> "feature_engineering"
      [] stage = "feature_engineering" -> "encode"
      [] stage = "encode" -> "export"
      [] OTHER -> "done"

\* Where main goes after a stage: on, or out with the exception.
after(stage, exc) ==
    IF exc # "" THEN "failed"
    ELSE CASE stage = "load" -> "clean"
           [] stage = "clean" -> "feature_engineering"
           [] stage = "feature_engineering" -> "encode"
           [] stage = "encode" -> "export"
           [] OTHER -> "done"

Arg(stage) == stage_input(stage, df, clean_df, fe_df, final_df)

Enter(stage) ==
    /\ pc = stage
    /\ trace' = Append(trace, stage)
    /\ passed' = Append(passed, Arg(stage))

Init ==
    /\ pc = "load"
    /\ source \in SeqsUpTo(DocPool, MaxRows)
    /\ from_mongo \in BOOLEAN
    /\ mongo_up \in BOOLEAN
    /\ file_exists \in BOOLEAN
    /\ from_mongo => ~file_exists
    /\ ~from_mongo => ~mongo_up
    /\ source_read = FALSE
    /\ df = EmptyTable
    /\ clean_df = EmptyTable
    /\ fe_df = EmptyTable
    /\ final_df = EmptyTable
    /\ current_year = 0
    /\ cat_cols = [is_none |-> TRUE, cols |-> <<>>]
    /\ csv_file = NoFile
    /\ file_written = FALSE
    /\ raised = ""
    /\ trace = <<>>
    /\ passed = <<>>

Load ==
    /\ Enter("load")
    /\ \E r \in {load_data(from_mongo, mongo_up, file_exists, source)} :
           /\ df' = r.ret
           /\ raised' = r.raised
           /\ source_read' = r.read
           /\ pc' = after("load", r.raised)
    /\ UNCHANGED <<source, from_mongo, mongo_up, file_exists, clean_df, fe_df, final_df,
                   current_year, cat_cols, csv_file, file_written>>

Clean ==
    /\ Enter("clean")
    /\ \E fails \in BOOLEAN, mask \in [1..NRows(Arg("clean")) -> BOOLEAN] :
          /\ fails => \A i \in DOMAIN mask : mask[i]
          /\ \E r \in {clean_data(Arg("clean"), mask, fails)} :
                 /\ clean_df' = r.ret
                 /\ raised' = r.raised
                 /\ pc' = after("clean", r.raised)
    /\ UNCHANGED <<source, from_mongo, mongo_up, file_exists, source_read, df, fe_df,
                   final_df, current_year, cat_cols, csv_file, file_written>>

FeatureEngineer ==
    /\ Enter("feature_engineering")
    /\ \E y \in Years :
          \E r \in {feature_engineering(Arg("feature_engineering"), y)} :
              /\ current_year' = y
              /\ clean_df' = r.arg
              /\ fe_df' = r.ret
              /\ raised' = r.raised
              /\ pc' = after("feature_engineering", r.raised)
    /\ UNCHANGED <<source, from_mongo, mongo_up, file_exists, source_read, df, final_df,
                   cat_cols, csv_file, file_written>>

Encode ==
    /\ Enter("encode")
    /\ \E a \in CatColsArgs :
          \E r \in {encode_categorical(Arg("encode"), a)} :
              /\ cat_cols' = a
              /\ fe_df' = r.arg
              /\ final_df' = r.ret
              /\ raised' = r.raised
              /\ pc' = after("encode", r.raised)
    /\ UNCHANGED <<source, from_mongo, mongo_up, file_exists, source_read, df, clean_df,
                   current_year, csv_file, file_written>>

Export ==
    /\ Enter("export")
    /\ \E ok \in BOOLEAN :
          \E r \in {export_train_data(Arg("export"), ok, csv_file)} :
              /\ csv_file' = r.file
              /\ file_written' = r.written
              /\ raised' = r.raised
              /\ pc' = after("export", r.raised)
    /\ UNCHANGED <<source, from_mongo, mongo_up, file_exists, source_read, df, clean_df,
                   fe_df, final_df, current_year, cat_cols>>

Next == Load \/ Clean \/ FeatureEngineer \/ Encode \/ Export

Spec == Init /\ [][Next]_vars

(***************************************************************************)
(* Properties                                                              *)
(***************************************************************************)
\* The k-th stage was entered and returned without raising.
Returned(k) == Len(trace) >= k /\ ~(Len(trace) = k /\ pc = "failed")

Cell(t, i, c) == t.data[i][ColPos(t, c)]

\* The row of table t labelled l.
RowOf(t, l) == CHOOSE i \in 1..NRows(t) : t.index[i] = l

HasLabel(t, l) == \E i \in 1..NRows(t) : t.index[i] = l

PositivePrice(v) == IsNum(v) /\ v.n > 0
BelowLimit(v) == IsNum(v) /\ v.n < OdometerLimit * v.d

\* The tables feature_engineering and encode_categorical were given.
FeIn == passed[3]
EncIn == passed[4]

\* C1: every row of the output of feature_engineering has price > 0 and
\* odometer_km < 1,000,000; an input row with a price of 0 or below (or none),
\* or an odometer of 1,000,000 or more (or none), is not in the output, though
\* price_log was computed for it before the filter.
C1_OutlierRowsDropped ==
    Returned(3) =>
        /\ \A i \in 1..NRows(fe_df) :
              /\ PositivePrice(Cell(fe_df, i, "price"))
              /\ BelowLimit(Cell(fe_df, i, "odometer_km"))
        /\ \A i \in 1..NRows(FeIn) :
              (~PositivePrice(Cell(FeIn, i, "price"))
                 \/ ~BelowLimit(Cell(FeIn, i, "odometer_km")))
              => ~HasLabel(fe_df, FeIn.index[i])

\* A run where a row of price 0 and a row with odometer_km = 1,000,000 went in
\* and neither came out.
C1_Witness ==
    /\ Returned(3)
    /\ \E i \in 1..NRows(FeIn) :
          Cell(FeIn, i, "price") = IntCell(0) /\ BelowLimit(Cell(FeIn, i, "odometer_km"))
    /\ \E i \in 1..NRows(FeIn) :
          Cell(FeIn, i, "odometer_km") = IntCell(OdometerLimit)
    /\ NRows(fe_df) = 0

\* C2 as amended: in every row of the output of feature_engineering whose year
\* is present, age >= 0: age = current_year - year when year <= current_year
\* and 0 when year is in the future; a row whose year is missing has a missing
\* age.
C2_AgeClampedWhenYearPresent ==
    Returned(3) =>
        \A i \in 1..NRows(fe_df) :
            LET year == Cell(fe_df, i, "year")
                age == Cell(fe_df, i, "age")
            IN  /\ IsNum(year) =>
                      /\ IsNum(age) /\ age.d = 1 /\ age.n >= 0
                      /\ year.n <= current_year => age.n = current_year - year.n
                      /\ year.n > current_year => age.n = 0
                /\ isna(year) => isna(age)

\* An output row with a model year in the future, and one with a past year.
C2_Witness ==
    /\ Returned(3)
    /\ \E i \in 1..NRows(fe_df) :
          IsNum(Cell(fe_df, i, "year")) /\ Cell(fe_df, i, "year").n > current_year
    /\ \E i \in 1..NRows(fe_df) :
          IsNum(Cell(fe_df, i, "year")) /\ Cell(fe_df, i, "year").n < current_year

\* C2 as stated: in every row of the output of feature_engineering age >= 0.
C2_AgeNonNegativeInEveryRow ==
    Returned(3) =>
        \A i \in 1..NRows(fe_df) :
            IsNum(Cell(fe_df, i, "age")) /\ Cell(fe_df, i, "age").n >= 0

\* C3: in every row of the output of feature_engineering km_per_year is
\* odometer_km / (age + 1) with the clamped age: the divisor is at least 1, a
\* row of age 0 (a future year included) has km_per_year = odometer_km, and
\* year 2020 with 50000 km in 2024 gives age 4 and km_per_year 10000.
C3_KmPerYear ==
    Returned(3) =>
        \A i \in 1..NRows(fe_df) :
            LET year == Cell(fe_df, i, "year")
                age == Cell(fe_df, i, "age")
                odo == Cell(fe_df, i, "odometer_km")
                km == Cell(fe_df, i, "km_per_year")
            IN  /\ IsNum(age) =>
                      /\ age.n + age.d >= age.d
                      /\ IsNum(km)
                      /\ km.n * (age.n + age.d) * odo.d = odo.n * age.d * km.d
                      /\ age.n = 0 => km.n * odo.d = odo.n * km.d
                /\ isna(age) => isna(km)
                /\ (IsNum(year) /\ year.n >= current_year) => km.n * odo.d = odo.n * km.d
                /\ (year.n = 2020 /\ IsNum(year) /\ odo.n = 50000 /\ current_year = 2024)
                      => age.n = 4 /\ km.n = 10000 /\ km.d = 1

\* The row of year 2020 and 50000 km, run in 2024, next to a future-year row
\* of age 0.
C3_Witness ==
    /\ Returned(3)
    /\ current_year = 2024
    /\ \E i \in 1..NRows(fe_df) :
          /\ Cell(fe_df, i, "year").n = 2020
          /\ Cell(fe_df, i, "odometer_km").n = 50000
          /\ Cell(fe_df, i, "km_per_year").n = 10000
    /\ \E i \in 1..NRows(fe_df) :
          /\ IsNum(Cell(fe_df, i, "year")) /\ Cell(fe_df, i, "year").n > current_year
          /\ Cell(fe_df, i, "age").n = 0
          /\ Cell(fe_df, i, "km_per_year").n = Cell(fe_df, i, "odometer_km").n

\* C4: after feature_engineering fuel, transmission, brand, model and city are
\* columns of the output and hold a string in every row: "Unknown" where the
\* input lacks the column or the value, the input's value (as a string)
\* elsewhere.
C4_CategoricalsFilled ==
    Returned(3) =>
        \A k \in 1..Len(CatDefaults) :
            LET c == CatDefaults[k]
            IN  /\ HasCol(fe_df, c)
                /\ \A i \in 1..NRows(fe_df) :
                      LET out == Cell(fe_df, i, c)
                          r == RowOf(FeIn, fe_df.index[i])
                      IN  /\ out.t = "str"
                          /\ ~HasCol(FeIn, c) => out = Str("Unknown")
                          /\ HasCol(FeIn, c) =>
                                LET in == Cell(FeIn, r, c)
                                IN  /\ isna(in) => out = Str("Unknown")
                                    /\ in.t = "str" => out = in
                                    /\ IsNum(in) =>
                                          out.s \in {IntToStr(in.n), IntToStr(in.n) \o ".0"}

\* An output with a column the input lacks, a missing value in a column the
\* input has, and a value that is kept.
C4_Witness ==
    /\ Returned(3)
    /\ \E i \in 1..NRows(fe_df) :
          /\ ~HasCol(FeIn, "city")
          /\ Cell(fe_df, i, "city") = Str("Unknown")
          /\ HasCol(FeIn, "transmission")
          /\ isna(Cell(FeIn, RowOf(FeIn, fe_df.index[i]), "transmission"))
          /\ Cell(fe_df, i, "transmission") = Str("Unknown")
          /\ Cell(fe_df, i, "fuel") = Str("petrol")

\* The columns encode_categorical encoded.
EncCols == resolve_cat_cols(cat_cols)

\* The distinct values of column c of table t.
Distinct(t, c) == {Cell(t, i, c).s : i \in 1..NRows(t)}

RECURSIVE SumDistinct(_, _, _)
SumDistinct(t, cols, k) ==
    IF k > Len(cols) THEN 0
    ELSE Cardinality(Distinct(t, cols[k])) + SumDistinct(t, cols, k + 1)

Vocab == Range(SortedVocab)

One == FloatCell(1, 1)
Zero == FloatCell(0, 1)

\* C5: the output of encode_categorical has (input columns - encoded columns)
\* + (the sum over the encoded columns of their numbers of distinct values)
\* columns; no encoded column is left and every other input column is.
C5_ColumnCount ==
    Returned(4) =>
        /\ Len(final_df.columns) =
              (Len(EncIn.columns) - Len(EncCols)) + SumDistinct(EncIn, EncCols, 1)
        /\ \A k \in 1..Len(EncCols) : ~HasCol(final_df, EncCols[k])
        /\ \A j \in 1..Len(EncIn.columns) :
              ~InCols(EncCols, EncIn.columns[j]) => HasCol(final_df, EncIn.columns[j])

\* The default columns encoded over a table with two fuels, two transmissions
\* and two brands: three columns go and six come.
C5_Witness ==
    /\ Returned(4)
    /\ cat_cols.is_none
    /\ Cardinality(Distinct(EncIn, "fuel")) = 2
    /\ Cardinality(Distinct(EncIn, "brand")) = 2
    /\ Len(final_df.columns) = Len(EncIn.columns) + 3

\* C6: load_data on the file source with data/extracted_cars.csv absent raises
\* the not-found error (FileNotFoundError) before it reads the file; no rows
\* are returned and no later stage runs.
C6_MissingFileRaisesBeforeRead ==
    (~from_mongo /\ ~file_exists /\ Len(trace) >= 1) =>
        /\ raised = "FileNotFoundError"
        /\ ~source_read
        /\ pc = "failed"
        /\ trace = <<"load">>
        /\ df = EmptyTable
        /\ ~file_written

\* The load from a file that does not exist, over a source that has records.
C6_Witness ==
    /\ ~from_mongo
    /\ ~file_exists
    /\ Len(source) > 0
    /\ trace = <<"load">>
    /\ raised = "FileNotFoundError"

\* The result of the k-th stage, as main holds it.
ResultOf(k) ==
    CASE k = 1 -> df
      [] k = 2 -> clean_df
      [] k = 3 -> fe_df
      [] OTHER -> final_df

\* C7: the stages run in the order load, clean, feature_engineering, encode,
\* export, each at most once and on the result of the stage before; a stage
\* that raises ends the run, no later stage runs, and data/train_ready.csv is
\* written only after the four stages before the export succeeded.
C7_FixedOrderAbortOnError ==
    /\ Len(trace) <= Len(Stages)
    /\ trace = SubSeq(Stages, 1, Len(trace))
    /\ \A k \in 2..Len(trace) : passed[k] = ResultOf(k - 1)
    /\ raised # "" <=> pc = "failed"
    /\ pc = "failed" => ~ENABLED Next
    /\ pc \notin {"failed", "done"} => pc = Stages[Len(trace) + 1]
    /\ file_written =>
          /\ pc = "done"
          /\ trace = Stages
          /\ raised = ""
          /\ csv_file = to_csv(final_df)
    /\ ~file_written => csv_file = NoFile

\* A run that raised in encode_categorical (an empty table): four stages
\* entered, no export, no file.
C7_Witness ==
    /\ pc = "failed"
    /\ raised = "ValueError"
    /\ Len(trace) = 4
    /\ ~file_written

C9_ExactlyOneIndicator ==
    Returned(4) =>
        \A i \in 1..NRows(final_df) : \A k \in 1..Len(EncCols) :
            LET c == EncCols[k]
                ind == {v \in Vocab : HasCol(final_df, c \o "_" \o v)}
                ones == {v \in ind : Cell(final_df, i, c \o "_" \o v) = One}
                zeros == {v \in ind : Cell(final_df, i, c \o "_" \o v) = Zero}
            IN  /\ ind = Distinct(EncIn, c)
                /\ ones = {Cell(EncIn, i, c).s}
                /\ zeros = ind \ ones

\* An encoded table with a row whose transmission was defaulted to "Unknown"
\* next to a row with a known transmission.
C9_Witness ==
    /\ Returned(4)
    /\ cat_cols.is_none
    /\ Cardinality(Distinct(EncIn, "transmission")) = 2
    /\ \E i \in 1..NRows(final_df) :
          /\ Cell(EncIn, i, "transmission") = Str("Unknown")
          /\ Cell(final_df, i, "transmission_Unknown") = One

\* C10: feature_engineering and encode_categorical leave the table they are
\* given as it was: the same rows, columns and values after the call, whether
\* it returned or raised.
C10_InputsUnchanged ==
    /\ Len(trace) >= 3 => clean_df = FeIn
    /\ Len(trace) >= 4 => fe_df = EncIn

\* Both calls returned tables that differ from what they were given: rows
\* dropped and columns added by the first, columns replaced by the second.
C10_Witness ==
    /\ Returned(4)
    /\ NRows(fe_df) < NRows(clean_df)
    /\ ~HasCol(clean_df, "age") /\ HasCol(fe_df, "age")
    /\ HasCol(fe_df, "fuel") /\ ~HasCol(final_df, "fuel")

====
